---- MODULE Spec2Model ----
(***************************************************************************)
(* FWCAM (Fuel Watcher Car Advanced Manager): the refresh cycle of         *)
(* FwcamDataUpdateCoordinator, the Tankerkoenig provider with its station  *)
(* validator, and the recommended-station sensor that reads the snapshot.  *)
(*                                                                         *)
(* Python values are tagged records so that None, numbers and strings can  *)
(* be told apart: [t |-> "none"], [t |-> "num", v |-> n], [t |-> "str"].   *)
(* Prices are integers, in cents.                                          *)
(***************************************************************************)
EXTENDS Integers, Sequences, FiniteSets, TLC

(***************************************************************************)
(* Bounds of the model                                                     *)
(***************************************************************************)
MaxCycles == 3
MaxNow == 1
TimeStep == 15
MaxStations == 3

(***************************************************************************)
(* Program constants                                                       *)
(***************************************************************************)
FETCH_TIMEOUT == 30
CLIENT_TIMEOUT == 30
MAX_RADIUS == 25
FALLBACK_RADIUS == 5
HTTP_OK == 200
DEFAULT_FUEL_TYPE == "e5"

(***************************************************************************)
(* Python values                                                           *)
(***************************************************************************)
PNone == [t |-> "none"]
PNum(n) == [t |-> "num", v |-> n]
PInf == [t |-> "inf"]
PStr == [t |-> "str"]

\* bool(x) as used by `x or y` and `if x`
Truthy(x) ==
    CASE x.t = "none" -> FALSE
      [] x.t = "num"  -> x.v # 0
      [] OTHER        -> TRUE

\* `a or b`
PyOr(a, b) == IF Truthy(a) THEN a ELSE b

\* `a or b` on strings, "" standing for a missing key (None)
StrOr(a, b) == IF a # "" THEN a ELSE b

FuelKinds == <<"e5", "e10", "diesel">>
IdentityFields == {"id", "name", "brand", "lat", "lng"}

(***************************************************************************)
(* Station records as they arrive in the JSON payload.  kind = "dict" is a *)
(* mapping, anything else is a non-mapping list element.  price.kind says  *)
(* whether the "price" entry is a mapping.  selected_fuel_type ("" when    *)
(* the key is absent) and selected_price are the keys the sensor writes.   *)
(***************************************************************************)
Price(e5, e10, diesel) == [kind |-> "dict", e5 |-> e5, e10 |-> e10, diesel |-> diesel]
NoPrice == [kind |-> "none", e5 |-> PNone, e10 |-> PNone, diesel |-> PNone]

Station(id, fields, price) ==
    [kind |-> "dict", id |-> id, fields |-> fields, price |-> price,
     selected_fuel_type |-> "", selected_price |-> PNone]

NotAMapping ==
    [kind |-> "str", id |-> "", fields |-> {}, price |-> NoPrice,
     selected_fuel_type |-> "", selected_price |-> PNone]

\* price_obj.get(ft)
PriceGet(price, ft) ==
    CASE ft = "e5"     -> price.e5
      [] ft = "e10"    -> price.e10
      [] ft = "diesel" -> price.diesel
      [] OTHER         -> PNone

(***************************************************************************)
(* TankerkoenigProvider.validate_station                                   *)
(***************************************************************************)
IsValidPriceZeroAllowed(p) == p.t = "num" /\ p.v >= 0

\* fuel_price is not None and isinstance(fuel_price, (int, float)) and fuel_price > 0
IsValidPrice(p) == p.t = "num" /\ p.v > 0

HasValidPrice(price) ==
    \E i \in 1..Len(FuelKinds) : IsValidPrice(PriceGet(price, FuelKinds[i]))

validate_stationIgnoringIdentity(station) ==
    IF station.kind # "dict" THEN FALSE
    ELSE IF station.price.kind # "dict" THEN FALSE
    ELSE HasValidPrice(station.price)

validate_station(station) ==
    IF station.kind # "dict" THEN FALSE
    ELSE IF station.price.kind # "dict" THEN FALSE
    ELSE IF ~HasValidPrice(station.price) THEN FALSE
    ELSE IF \E f \in IdentityFields : f \notin station.fields THEN FALSE
    ELSE TRUE

(***************************************************************************)
(* TankerkoenigProvider.fetch_stations: what the body of the try block     *)
(* does with a response, then the two except clauses.                      *)
(* A response is [kind, status, body, ok, stations]:                       *)
(*   kind   "client_error" (aiohttp.ClientError from the GET) or "http"    *)
(*   body   "not_json" (response.json() raises), "not_mapping" (the JSON   *)
(*          is not an object), "no_list" (data.stations is null) or        *)
(*          "mapping"                                                      *)
(***************************************************************************)
\* Exceptions are named by class: "ClientError", "Exception" (any other
\* subclass of Exception), "TimeoutError", and "CancelledError", which derives
\* from BaseException and passes an `except Exception` clause.
IsException(exc) == exc # "CancelledError"

Returned(stations) == [exc |-> "", stations |-> stations]
Raised(exc) == [exc |-> exc, stations |-> <<>>]

ClampRadiusNone(radius) == radius

\* radius = min(radius, 25)
ClampRadius(radius) == IF radius < MAX_RADIUS THEN radius ELSE MAX_RADIUS

\* the for loop over the received records; the debug call of the else
\* branch evaluates station.get(...), which a non-mapping element lacks
FilterStations(stations) ==
    IF \E i \in 1..Len(stations) : stations[i].kind # "dict"
    THEN Raised("Exception")
    ELSE Returned(SelectSeq(stations, validate_station))

TryBody(resp) ==
    IF resp.kind = "client_error" THEN Raised("ClientError")
    ELSE IF resp.status # HTTP_OK THEN Returned(<<>>)
    ELSE IF resp.body = "not_json" THEN Raised("Exception")
    ELSE IF resp.body = "not_mapping" THEN Raised("Exception")
    ELSE IF ~resp.ok THEN Returned(<<>>)
    ELSE IF resp.body = "no_list" THEN Raised("Exception")
    ELSE FilterStations(resp.stations)

CaughtByFetchClientErrorOnly(exc) == exc = "ClientError"

CaughtByFetchNothing(exc) == FALSE

\* except aiohttp.ClientError / except Exception
CaughtByFetch(exc) == exc = "ClientError" \/ IsException(exc)

fetch_stations(resp) ==
    LET r == TryBody(resp)
    IN  IF r.exc # "" /\ CaughtByFetch(r.exc) THEN Returned(<<>>) ELSE r

(***************************************************************************)
(* FwcamStationSensor._handle_coordinator_update: the scan for the best    *)
(* price.  The loop visits the stations in order and, for "all", the kinds *)
(* in the order e5, e10, diesel; each improvement writes the keys          *)
(* selected_fuel_type and selected_price into the station mapping itself.  *)
(***************************************************************************)
ScanPairsFirstKindOnly(stations, fuel_type) ==
    [j \in 1..Len(stations) |-> <<j, IF fuel_type = "all" THEN FuelKinds[1] ELSE fuel_type>>]

ScanPairs(stations, fuel_type) ==
    IF fuel_type = "all"
    THEN [j \in 1..(3 * Len(stations)) |->
            <<((j - 1) \div 3) + 1, FuelKinds[((j - 1) % 3) + 1]>>]
    ELSE [j \in 1..Len(stations) |-> <<j, fuel_type>>]

ScanStepLastWins(acc, pair) ==
    LET i     == pair[1]
        ft    == pair[2]
        price == PriceGet(acc.stations[i].price, ft)
    IN  IF acc.raised \/ ~Truthy(price) THEN acc
        ELSE IF price.t # "num" THEN [acc EXCEPT !.raised = TRUE]
        ELSE IF acc.best_price.t = "inf" \/ price.v <= acc.best_price.v
        THEN [acc EXCEPT !.best_price = price,
                         !.best = i,
                         !.stations[i].selected_fuel_type = ft,
                         !.stations[i].selected_price = price]
        ELSE acc

\* if price and price < best_price: ... (a non-numeric price raises TypeError)
ScanStep(acc, pair) ==
    LET i     == pair[1]
        ft    == pair[2]
        price == PriceGet(acc.stations[i].price, ft)
    IN  IF acc.raised \/ ~Truthy(price) THEN acc
        ELSE IF price.t # "num" THEN [acc EXCEPT !.raised = TRUE]
        ELSE IF acc.best_price.t = "inf" \/ price.v < acc.best_price.v
        THEN [acc EXCEPT !.best_price = price,
                         !.best = i,
                         !.stations[i].selected_fuel_type = ft,
                         !.stations[i].selected_price = price]
        ELSE acc

RECURSIVE ScanFrom(_, _, _)
ScanFrom(acc, pairs, j) ==
    IF j > Len(pairs) THEN acc
    ELSE ScanFrom(ScanStep(acc, pairs[j]), pairs, j + 1)

Scan(stations, fuel_type) ==
    ScanFrom([stations |-> stations, best |-> 0, best_price |-> PInf, raised |-> FALSE],
             ScanPairs(stations, fuel_type), 1)

\* the sensor's _state and the attributes the claims speak of; state is the
\* station's name, which the model identifies with its id
SensorUnset ==
    [state |-> "unset", station_id |-> "", fuel_type |-> "", price |-> PNone,
     station_count |-> 0, error |-> ""]

\* tankerkoenig_data.get("error", "No data")
ErrorAttr(tk) == IF tk.present /\ tk.error # "" THEN tk.error ELSE "No data"

\* config.get("fuel_type", "e5")
SensorFuelType(config) == IF config.fuel_type # "" THEN config.fuel_type ELSE DEFAULT_FUEL_TYPE

\* The handler applied to the snapshot's provider entry tk and config;
\* yields the sensor's new state and the provider entry as the scan left it.
HandleUpdate(old, tk, config) ==
    IF ~tk.present \/ Len(tk.stations) = 0
    THEN [sensor |-> [state |-> "No stations available", station_id |-> "",
                      fuel_type |-> "", price |-> PNone, station_count |-> 0,
                      error |-> ErrorAttr(tk)],
          tk |-> tk]
    ELSE LET r == Scan(tk.stations, SensorFuelType(config))
             marked == [tk EXCEPT !.stations = r.stations]
         IN  IF r.raised THEN [sensor |-> old, tk |-> marked]
             ELSE IF r.best # 0
             THEN [sensor |-> [state |-> r.stations[r.best].id,
                               station_id |-> r.stations[r.best].id,
                               fuel_type |-> r.stations[r.best].selected_fuel_type,
                               price |-> r.stations[r.best].selected_price,
                               station_count |-> Len(tk.stations),
                               error |-> ""],
                   tk |-> marked]
             ELSE [sensor |-> [state |-> "No valid prices found", station_id |-> "",
                               fuel_type |-> "", price |-> PNone,
                               station_count |-> Len(tk.stations),
                               error |-> "No valid prices for selected fuel type"],
                   tk |-> marked]

(***************************************************************************)
(* async_setup_entry: the validated config stored in hass.data.            *)
(* A config entry is [api_key, latitude, longitude, radius, fuel_type];    *)
(* PNone and "" stand for a key the entry does not carry.                  *)
(* hass.config.latitude is the home location of the installation, None     *)
(* when the installation has none.                                         *)
(***************************************************************************)
HassLongitude == PNum(13)
HassLatitudes == {PNone, PNum(0), PNum(52)}

\* entry.data.get(key, default)
GetOr(x, default) == IF x.t = "none" THEN default ELSE x

SetupOk(e, hass_latitude) ==
    /\ GetOr(e.latitude, hass_latitude).t # "none"
    /\ GetOr(e.longitude, HassLongitude).t # "none"

SetupConfig(e, hass_latitude) ==
    [latitude  |-> GetOr(e.latitude, hass_latitude),
     longitude |-> GetOr(e.longitude, HassLongitude),
     radius    |-> GetOr(e.radius, PNum(FALLBACK_RADIUS)),
     fuel_type |-> e.fuel_type]

EmptyConfig == [latitude |-> PNone, longitude |-> PNone, radius |-> PNone, fuel_type |-> ""]

Entry(api_key, latitude, longitude, radius, fuel_type) ==
    [api_key |-> api_key, latitude |-> latitude, longitude |-> longitude,
     radius |-> radius, fuel_type |-> fuel_type]

\* the config entries the model starts from
EntryData ==
    {Entry("key", PNum(48), PNum(11), PNum(30), ""),
     Entry("key", PNum(48), PNum(11), PNone, "all"),
     Entry("key", PNum(0), PNum(11), PNum(5), "all"),
     Entry("key", PNone, PNum(11), PNum(5), ""),
     Entry("key", PNum(48), PNone, PNum(5), ""),
     Entry("key", PNum(48), PNum(11), PNum(0), ""),
     Entry("key", PNum(48), PNum(11), PNum(-3), ""),
     Entry("key", PNum(95), PNum(11), PNum(5), ""),
     Entry("", PNum(48), PNum(11), PNum(5), "")}

(***************************************************************************)
(* Responses the provider's HTTP call can produce in a cycle               *)
(***************************************************************************)
StationA == Station("A", IdentityFields, Price(PNum(180), PNone, PNone))
StationB == Station("B", IdentityFields, Price(PNum(180), PNone, PNum(160)))
StationNoPrice == Station("C", IdentityFields, Price(PNone, PNum(0), PNone))

\* further records a payload can carry
StationDiesel == Station("D", IdentityFields, Price(PNone, PNone, PNum(160)))
StationE10 == Station("E", IdentityFields, Price(PNone, PNum(175), PNone))
StationNegative == Station("N", IdentityFields, Price(PNum(-5), PNone, PNum(190)))
StationZero == Station("Z", IdentityFields, Price(PNum(0), PNum(170), PNone))
StationNoBrand == Station("M", IdentityFields \ {"brand"}, Price(PNum(150), PNone, PNone))
StationNoPriceMapping == Station("P", IdentityFields, NoPrice)
StationTextPrice == Station("T", IdentityFields, Price(PStr, PNone, PNone))

Records ==
    {StationA, StationB, StationDiesel, StationE10, StationNegative, StationZero,
     StationNoPrice, StationNoBrand, StationNoPriceMapping, StationTextPrice,
     NotAMapping}

\* the station lists of up to MaxStations records
StationLists == UNION {[1..n -> Records] : n \in 0..MaxStations}

Payloads ==
    {<<>>, <<StationA>>, <<StationB>>, <<StationA, StationB>>, <<StationB, StationA>>,
     <<StationNoPrice>>, <<StationA, StationNoPrice>>, <<StationA, NotAMapping>>}

Resp(kind, status, body, ok, stations) ==
    [kind |-> kind, status |-> status, body |-> body, ok |-> ok, stations |-> stations]

RespClientError == Resp("client_error", 0, "", FALSE, <<>>)
RespStatus500 == Resp("http", 500, "mapping", FALSE, <<>>)
RespNotJson == Resp("http", HTTP_OK, "not_json", FALSE, <<>>)
RespNotMapping == Resp("http", HTTP_OK, "not_mapping", FALSE, <<>>)
RespOkFalse == Resp("http", HTTP_OK, "mapping", FALSE, <<>>)
RespNoList == Resp("http", HTTP_OK, "no_list", TRUE, <<>>)
RespStations(stations) == Resp("http", HTTP_OK, "mapping", TRUE, stations)

\* the failures the provider is to absorb
FailureResponses ==
    {RespClientError, RespStatus500, RespNotJson, RespNotMapping, RespOkFalse, RespNoList}

Responses == FailureResponses \cup {RespStations(p) : p \in Payloads}

\* aiohttp.ClientTimeout(total=30) expiring inside the GET: asyncio.TimeoutError,
\* raised inside the try block of fetch_stations
ClientTimeoutOutcome ==
    IF CaughtByFetch("Exception") THEN Returned(<<>>) ELSE Raised("Exception")

(***************************************************************************)
(* State                                                                   *)
(***************************************************************************)
VARIABLES
    entry,                \* entry.data of the config entry
    hass_config,          \* hass.data[DOMAIN][entry_id]["config"]
    st_config,            \* coordinator._state["config"]
    st_last_update,       \* coordinator._state["last_update"]
    providers,            \* the mapping object _state["providers"]: its "tankerkoenig" entry
    snaps,                \* the snapshot mappings built so far, in order of creation
    data,                 \* coordinator.data: 0 for None, else an index into snaps
    last_update_success,  \* status of the last cycle
    pc,                   \* "NotSetUp", "SetupFailed", "Idle", "Fetching" (suspended
                          \* in the GET), "Crashed" or "Unloaded"
    elapsed,              \* seconds since the running cycle started
    req,                  \* the provider request of the running or last cycle
    session_open,         \* provider._session is not None
    sessions,             \* ClientSession objects created and not closed
    now,                  \* reading of the wall clock
    cycles,               \* number of cycles started
    sensor,               \* FwcamStationSensor._state and attributes
    subscribed,           \* the sensor is registered as a listener
    last_cycle,           \* history: how the last cycle went
    last_published        \* history: the snapshot returned by the last completed cycle

vars == <<entry, hass_config, st_config, st_last_update, providers, snaps, data,
          last_update_success, pc, elapsed, req, session_open, sessions, now, cycles,
          sensor, subscribed, last_cycle, last_published>>

\* the "tankerkoenig" entry of the providers mapping
NoEntry == [present |-> FALSE, stations |-> <<>>, count |-> 0, error |-> ""]
Result(stations) ==
    [present |-> TRUE, stations |-> stations, count |-> Len(stations), error |-> ""]
ErrorResult(err) == [present |-> TRUE, stations |-> <<>>, count |-> 0, error |-> err]

NoRequest == [issued |-> FALSE, lat |-> 0, lng |-> 0, radius |-> 0, type |-> ""]
NoResp == Resp("none", 0, "", FALSE, <<>>)

HasProviderAlways == TRUE

\* self._tankerkoenig_provider = TankerkoenigProvider(api_key) if api_key else None
HasProvider == entry.api_key # ""

(***************************************************************************)
(* Reading a snapshot.  Every snapshot built by async_fetch_data carries,  *)
(* under "providers", the mapping object _state["providers"] itself, so    *)
(* reading a snapshot's provider results reads the variable providers.     *)
(***************************************************************************)
SnapshotViewNoTimestamp(i) ==
    [providers |-> providers, last_update |-> PNone, config |-> snaps[i].config]

SnapshotView(i) ==
    [providers |-> providers, last_update |-> snaps[i].last_update,
     config |-> snaps[i].config]

StateView ==
    [providers |-> providers, last_update |-> st_last_update, config |-> st_config]

snapshotDataOnly ==
    IF data # 0 THEN [obj |-> "data", idx |-> data] ELSE [obj |-> "None", idx |-> 0]

\* return self.data or self._state
snapshot ==
    IF data # 0 THEN [obj |-> "data", idx |-> data] ELSE [obj |-> "_state", idx |-> 0]

Deref(ref) ==
    CASE ref.obj = "data"   -> SnapshotView(ref.idx)
      [] ref.obj = "_state" -> StateView
      [] OTHER              -> [providers |-> NoEntry, last_update |-> PNone,
                                config |-> EmptyConfig]

AccessorView == Deref(snapshot)

BaselineView == [providers |-> NoEntry, last_update |-> PNone, config |-> EmptyConfig]

(***************************************************************************)
(* Init: a config entry exists and async_setup_entry has not run yet; the  *)
(* coordinator's fields have the values its constructor gives them.        *)
(***************************************************************************)
Init ==
    /\ entry \in EntryData
    /\ hass_config = EmptyConfig
    /\ st_config = EmptyConfig
    /\ st_last_update = PNone
    /\ providers = NoEntry
    /\ snaps = <<>>
    /\ data = 0
    /\ last_update_success = TRUE
    /\ pc = "NotSetUp"
    /\ elapsed = 0
    /\ req = NoRequest
    /\ session_open = FALSE
    /\ sessions = 0
    /\ now = 0
    /\ cycles = 0
    /\ sensor = SensorUnset
    /\ subscribed = FALSE
    /\ last_cycle = [end |-> "none", resp |-> NoResp, fetch_exc |-> "", rec_before |-> ""]
    /\ last_published = BaselineView

(***************************************************************************)
(* async_setup_entry up to the creation of the coordinator: the            *)
(* coordinates are read with the home location as default, setup returns   *)
(* False when one of them is None, otherwise the config is stored and the  *)
(* coordinator is created.                                                 *)
(***************************************************************************)
async_setup_entry ==
    /\ pc = "NotSetUp"
    /\ \E hl \in HassLatitudes :
          IF SetupOk(entry, hl)
          THEN /\ hass_config' = SetupConfig(entry, hl)
               /\ pc' = "Idle"
          ELSE /\ hass_config' = hass_config
               /\ pc' = "SetupFailed"
    /\ UNCHANGED <<entry, st_config, st_last_update, providers, snaps, data,
                   last_update_success, elapsed, req, session_open, sessions, now, cycles,
                   sensor, subscribed, last_cycle, last_published>>

(***************************************************************************)
(* The refresh cycle: _async_update_data and async_fetch_data              *)
(***************************************************************************)
CaughtByCoordinatorAll(exc) == TRUE

\* coordinator.py line 108: except Exception around the provider section
CaughtByCoordinator(exc) == IsException(exc)

CaughtByUpdateTimeoutOnly(exc) == exc = "TimeoutError"

\* _async_update_data: except asyncio.TimeoutError / except Exception,
\* both raising UpdateFailed
CaughtByUpdate(exc) == exc = "TimeoutError" \/ IsException(exc)

\* the query of a cycle (coordinator.py lines 82-85)
QueryLatitude == PyOr(st_config'.latitude, entry.latitude)
QueryLongitude == PyOr(st_config'.longitude, entry.longitude)
QueryRadius == PyOr(st_config'.radius, GetOr(entry.radius, PNum(FALLBACK_RADIUS)))
QueryFuelType == StrOr(st_config'.fuel_type, StrOr(entry.fuel_type, DEFAULT_FUEL_TYPE))

HasCoordinates == QueryLatitude.t # "none" /\ QueryLongitude.t # "none"

\* the listeners are called at the end of a refresh: the sensor's handler
\* reads the accessor and rescans the stations
Notified(tk, cfg) ==
    IF subscribed THEN HandleUpdate(sensor, tk, cfg) ELSE [sensor |-> sensor, tk |-> tk]

\* history of a cycle: how it ended, the response it got, the exception that
\* left fetch_stations, and the station the sensor recommended when it ended
History(end, resp, exc) ==
    [end |-> end, resp |-> resp, fetch_exc |-> exc, rec_before |-> sensor.station_id]

\* lines 118-132, then the refresh stores the returned snapshot in data
PublishSuccess(tk, cfg) ==
    LET h == Notified(tk, cfg)
    IN  /\ providers' = h.tk
        /\ sensor' = h.sensor
        /\ st_last_update' = PNum(now)
        /\ snaps' = Append(snaps, [last_update |-> PNum(now), config |-> cfg])
        /\ data' = Len(snaps) + 1
        /\ last_update_success' = TRUE
        /\ last_published' = [providers |-> tk, last_update |-> PNum(now), config |-> cfg]

\* UpdateFailed: data keeps its value and the cycle is reported as failed.
\* A handler called now rereads the snapshot it has already scanned, which
\* leaves the sensor and the stations as they are (SensorUpToDate).
CycleFailed ==
    /\ last_update_success' = FALSE
    /\ UNCHANGED <<providers, sensor, st_last_update, snaps, data, last_published>>

\* an exception that reaches _async_update_data
Propagate(exc) ==
    IF CaughtByUpdate(exc)
    THEN CycleFailed /\ pc' = "Idle"
    ELSE /\ pc' = "Crashed"
         /\ UNCHANGED <<providers, sensor, last_update_success, st_last_update,
                        snaps, data, last_published>>

\* the outcome r of fetch_stations, handled at lines 101-114
StoreFetch(r, cfg) ==
    IF r.exc = "" THEN PublishSuccess(Result(r.stations), cfg) /\ pc' = "Idle"
    ELSE IF CaughtByCoordinator(r.exc)
    THEN PublishSuccess(ErrorResult(r.exc), cfg) /\ pc' = "Idle"
    ELSE Propagate(IF r.exc = "CancelledError" THEN "TimeoutError" ELSE r.exc)

CanStart == pc = "Idle" /\ cycles < MaxCycles

CycleTimeoutNever(e) == FALSE

\* asyncio.wait_for(self.async_fetch_data(), timeout=FETCH_TIMEOUT)
CycleTimeoutExpired(e) == e >= FETCH_TIMEOUT

\* a fault raised at line 76, before anything is written
CycleFaultOnEntry ==
    /\ CanStart
    /\ cycles' = cycles + 1
    /\ last_cycle' = History("fault_entry", NoResp, "")
    /\ Propagate("Exception")
    /\ UNCHANGED <<entry, hass_config, st_config, elapsed, req, session_open, sessions, now,
                   subscribed>>

\* no API key: the provider section is skipped
CycleNoProvider ==
    /\ CanStart
    /\ ~HasProvider
    /\ cycles' = cycles + 1
    /\ st_config' = hass_config
    /\ last_cycle' = History("no_provider", NoResp, "")
    /\ PublishSuccess(providers, st_config')
    /\ pc' = "Idle"
    /\ UNCHANGED <<entry, hass_config, elapsed, req, session_open, sessions, now, subscribed>>

\* a fault raised inside the try block of the provider section, lines 82-100
CycleFaultInProviderSection ==
    /\ CanStart
    /\ HasProvider
    /\ cycles' = cycles + 1
    /\ st_config' = hass_config
    /\ last_cycle' = History("fault_provider", NoResp, "")
    /\ StoreFetch(Raised("Exception"), st_config')
    /\ UNCHANGED <<entry, hass_config, elapsed, req, session_open, sessions, now, subscribed>>

\* latitude or longitude is None: the fetch is skipped with a warning
CycleMissingCoordinates ==
    /\ CanStart
    /\ HasProvider
    /\ cycles' = cycles + 1
    /\ st_config' = hass_config
    /\ ~HasCoordinates
    /\ last_cycle' = History("no_coordinates", NoResp, "")
    /\ PublishSuccess(providers, st_config')
    /\ pc' = "Idle"
    /\ UNCHANGED <<entry, hass_config, elapsed, req, session_open, sessions, now, subscribed>>

\* the cycle runs up to the GET of fetch_stations and suspends there
CycleStartFetch ==
    /\ CanStart
    /\ HasProvider
    /\ cycles' = cycles + 1
    /\ st_config' = hass_config
    /\ HasCoordinates
    /\ req' = [issued |-> TRUE, lat |-> QueryLatitude.v, lng |-> QueryLongitude.v,
               radius |-> ClampRadius(QueryRadius.v), type |-> QueryFuelType]
    /\ session_open' = TRUE
    /\ sessions' = IF session_open THEN sessions ELSE sessions + 1
    /\ elapsed' = 0
    /\ pc' = "Fetching"
    /\ last_cycle' = History("running", NoResp, "")
    /\ UNCHANGED <<entry, hass_config, st_last_update, providers, snaps, data,
                   last_update_success, now, sensor, subscribed, last_published>>

\* the GET completes (or fails) before the client timeout
ProviderReturns(resp) ==
    /\ pc = "Fetching"
    /\ elapsed < CLIENT_TIMEOUT
    /\ LET r == fetch_stations(resp)
       IN  /\ last_cycle' = History("returned", resp, r.exc)
           /\ StoreFetch(r, st_config)
    /\ UNCHANGED <<entry, hass_config, st_config, elapsed, req, session_open, sessions, now,
                   cycles, subscribed>>

\* the client timeout of the GET expires
ClientTimeout ==
    /\ pc = "Fetching"
    /\ elapsed >= CLIENT_TIMEOUT
    /\ LET r == ClientTimeoutOutcome
       IN  /\ last_cycle' = History("client_timeout", NoResp, r.exc)
           /\ StoreFetch(r, st_config)
    /\ UNCHANGED <<entry, hass_config, st_config, elapsed, req, session_open, sessions, now,
                   cycles, subscribed>>

\* asyncio.wait_for(..., timeout=FETCH_TIMEOUT) expires: the cycle is cancelled
\* at its suspension point, CancelledError travelling up through fetch_stations
CycleTimeout ==
    /\ pc = "Fetching"
    /\ CycleTimeoutExpired(elapsed)
    /\ LET r == IF CaughtByFetch("CancelledError")
                THEN Returned(<<>>) ELSE Raised("CancelledError")
       IN  /\ last_cycle' = History("cycle_timeout", NoResp, r.exc)
           /\ StoreFetch(r, st_config)
    /\ UNCHANGED <<entry, hass_config, st_config, elapsed, req, session_open, sessions, now,
                   cycles, subscribed>>

TimePasses ==
    /\ pc = "Fetching"
    /\ elapsed < FETCH_TIMEOUT \/ elapsed < CLIENT_TIMEOUT
    /\ elapsed' = elapsed + TimeStep
    /\ UNCHANGED <<entry, hass_config, st_config, st_last_update, providers, snaps,
                   data, last_update_success, pc, req, session_open, sessions, now, cycles,
                   sensor, subscribed, last_cycle, last_published>>

\* datetime.now(timezone.utc) reads the wall clock of the host, which moves
\* forward and can be set back
ClockTick ==
    /\ now < MaxNow
    /\ now' = now + 1
    /\ UNCHANGED <<entry, hass_config, st_config, st_last_update, providers, snaps,
                   data, last_update_success, pc, elapsed, req, session_open, sessions, cycles,
                   sensor, subscribed, last_cycle, last_published>>

\* the platform is forwarded after the first refresh has succeeded;
\* async_added_to_hass subscribes the sensor and runs the handler once
AddSensor ==
    /\ pc # "Unloaded"
    /\ ~subscribed
    /\ data # 0
    /\ subscribed' = TRUE
    /\ LET h == HandleUpdate(sensor, AccessorView.providers, AccessorView.config)
       IN  /\ sensor' = h.sensor
           /\ providers' = h.tk
    /\ UNCHANGED <<entry, hass_config, st_config, st_last_update, snaps, data,
                   last_update_success, pc, elapsed, req, session_open, sessions, now, cycles,
                   last_cycle, last_published>>

ClockSetBack ==
    /\ now > 0
    /\ now' = now - 1
    /\ UNCHANGED <<entry, hass_config, st_config, st_last_update, providers, snaps,
                   data, last_update_success, pc, elapsed, req, session_open, sessions,
                   cycles, sensor, subscribed, last_cycle, last_published>>

\* async_unload_entry: the platforms are unloaded and the entry's data, the
\* coordinator with it, is popped from hass.data; the provider's close() is
\* not called
async_unload_entry ==
    /\ pc = "Idle"
    /\ pc' = "Unloaded"
    /\ subscribed' = FALSE
    /\ hass_config' = EmptyConfig
    /\ UNCHANGED <<entry, st_config, st_last_update, providers, snaps, data,
                   last_update_success, elapsed, req, session_open, sessions, now,
                   cycles, sensor, last_cycle, last_published>>

Next ==
    \/ async_setup_entry
    \/ CycleFaultOnEntry
    \/ CycleNoProvider
    \/ CycleFaultInProviderSection
    \/ CycleMissingCoordinates
    \/ CycleStartFetch
    \/ \E resp \in Responses : ProviderReturns(resp)
    \/ ClientTimeout
    \/ CycleTimeout
    \/ TimePasses
    \/ ClockTick
    \/ ClockSetBack
    \/ AddSensor
    \/ async_unload_entry

Spec == Init /\ [][Next]_vars

\* the event loop runs its timers: time passes and an expired wait_for fires
FairSpec == Spec /\ WF_vars(TimePasses) /\ WF_vars(CycleTimeout)

(***************************************************************************)
(* The path of one payload through the validator and the selector: the     *)
(* first cycle of a set-up integration is suspended in the GET, the GET    *)
(* returns a station list, the cycle publishes what fetch_stations made of *)
(* it, and the sensor is added and reads the snapshot.                     *)
(***************************************************************************)
PipelineFuelTypes == {"e5", "e10", "diesel", "all"}

PipelineInit ==
    /\ \E ft \in PipelineFuelTypes : entry = Entry("key", PNum(48), PNum(11), PNum(5), ft)
    /\ hass_config = SetupConfig(entry, PNum(52))
    /\ st_config = hass_config
    /\ st_last_update = PNone
    /\ providers = NoEntry
    /\ snaps = <<>>
    /\ data = 0
    /\ last_update_success = TRUE
    /\ pc = "Fetching"
    /\ elapsed = 0
    /\ req = [issued |-> TRUE, lat |-> 48, lng |-> 11, radius |-> ClampRadius(5),
              type |-> entry.fuel_type]
    /\ session_open = TRUE
    /\ sessions = 1
    /\ now = 0
    /\ cycles = 1
    /\ sensor = SensorUnset
    /\ subscribed = FALSE
    /\ last_cycle = [end |-> "running", resp |-> NoResp, fetch_exc |-> "", rec_before |-> ""]
    /\ last_published = BaselineView

\* the successful responses carrying these lists
PipelineResponses == {RespStations(p) : p \in StationLists}

\* the GET of the suspended cycle returns one of them
PipelineReturns ==
    /\ pc = "Fetching"
    /\ \E resp \in PipelineResponses : ProviderReturns(resp)

PipelineNext ==
    \/ PipelineReturns
    \/ AddSensor

PipelineSpec == PipelineInit /\ [][PipelineNext]_vars

(***************************************************************************)
(* Properties                                                              *)
(***************************************************************************)
\* a station without the keys the sensor writes into it
Unmarked(st) == [st EXCEPT !.selected_fuel_type = "", !.selected_price = PNone]

\* a view without the sensor's marks: what the coordinator itself put there
StripView(v) ==
    [v EXCEPT !.providers.stations =
        [i \in 1..Len(v.providers.stations) |-> Unmarked(v.providers.stations[i])]]

\* a subscribed sensor has scanned the snapshot the accessor shows
SensorUpToDate ==
    subscribed =>
        HandleUpdate(sensor, AccessorView.providers, AccessorView.config)
            = [sensor |-> sensor, tk |-> providers]

Recommendation(sn) == <<sn.station_id, sn.fuel_type, sn.price>>

\* the step in which a cycle that got the given kind of ending completes
Ends(end) == pc = "Fetching" /\ pc' # "Fetching" /\ last_cycle'.end = end

TransportFailureStep ==
    /\ Ends("returned")
    /\ last_cycle'.resp = RespClientError
    /\ subscribed
    /\ sensor.station_id # ""

C2_TimeoutRetainsSnapshot ==
    [][/\ Ends("cycle_timeout") =>
             /\ pc' = "Idle"
             /\ last_update_success' = FALSE
             /\ data' = data
             /\ snaps' = snaps
             /\ data # 0 => AccessorView' = AccessorView
       /\ (data # 0 /\ pc' = "Fetching") =>
             /\ data' = data
             /\ StripView(AccessorView') = StripView(AccessorView)]_vars

C2_Witness ==
    /\ pc = "Idle"
    /\ last_cycle.end = "cycle_timeout"
    /\ last_update_success = FALSE
    /\ data # 0
    /\ AccessorView.providers.count > 0

\* C3: a cycle that is fetching always comes back to Idle, and when it is the
\* cycle timeout that ends it (the provider call has not returned) the cycle is
\* reported as failed.
C3_FetchingLeadsToIdle ==
    (pc = "Fetching") ~>
        (pc = "Idle" /\ (last_cycle.end = "cycle_timeout" => last_update_success = FALSE))

C3_Witness ==
    /\ pc = "Idle"
    /\ last_cycle.end = "cycle_timeout"
    /\ last_update_success = FALSE
    /\ cycles < MaxCycles

\* C5 as stated: no step changes what a snapshot that has been built and
\* published holds (the sensor's marks aside).
C5_PublishedSnapshotImmutable ==
    [][\A i \in 1..Len(snaps) :
          StripView(SnapshotView(i))' = StripView(SnapshotView(i))]_vars

\* C6 as stated: what the accessor shows is, as a whole, the snapshot returned
\* by the last completed cycle, or the baseline when no cycle has completed.
C6_AccessorShowsOneCycle ==
    StripView(AccessorView) = StripView(last_published)

\* C7: the accessor never yields None, and until a cycle has succeeded it yields
\* the baseline: no provider results and no timestamp.
C7_AccessorNeverNull ==
    /\ snapshot.obj # "None"
    /\ data = 0 => /\ snapshot.obj = "_state"
                   /\ AccessorView.providers = NoEntry
                   /\ AccessorView.last_update = PNone

C7_Witness ==
    /\ data = 0
    /\ last_cycle.end = "cycle_timeout"
    /\ snapshot.obj = "_state"

\* C8: for a non-200 status, ok = false, a malformed payload and a transport
\* failure, no exception leaves fetch_stations and it returns an empty list.
C8_FetchNeverRaises ==
    (last_cycle.end = "returned" /\ last_cycle.resp \in FailureResponses) =>
        /\ last_cycle.fetch_exc = ""
        /\ providers.present
        /\ providers.stations = <<>>
        /\ providers.count = 0

C8_Witness ==
    /\ last_cycle.end = "returned"
    /\ last_cycle.resp = RespNotMapping
    /\ last_cycle.fetch_exc = ""
    /\ providers = Result(<<>>)

\* C9 as stated: after a failed provider call (non-200, ok = false, transport
\* failure) the stored provider result has no stations and a populated error.
C9_FailureStoresError ==
    (last_cycle.end = "returned"
        /\ last_cycle.resp \in {RespStatus500, RespOkFalse, RespClientError}) =>
        /\ providers.stations = <<>>
        /\ providers.error # ""

FaultStep(end) == pc = "Idle" /\ cycles' = cycles + 1 /\ last_cycle'.end = end

RequestedFuelType ==
    IF AccessorView.config.fuel_type = "" THEN "e5" ELSE AccessorView.config.fuel_type

\* a station offers a kind when it carries a price for it that is a number
\* other than zero (whether a price below zero is an offer is C13's matter)
Offers(st, ft) == PriceGet(st.price, ft).t = "num" /\ PriceGet(st.price, ft).v # 0

\* the (station index, kind index) pairs in the order of the flattened
\* sequence: stations in sequence order, kinds in the order e5, e10, diesel
Earlier(a, b) == a[1] < b[1] \/ (a[1] = b[1] /\ a[2] <= b[2])

OfferedPairs(stations, kinds) ==
    {pr \in (1..Len(stations)) \X kinds : Offers(stations[pr[1]], FuelKinds[pr[2]])}

PairPrice(stations, pr) == PriceGet(stations[pr[1]].price, FuelKinds[pr[2]]).v

\* the pair with the least price, the earliest one among equals
CheapestPair(stations, kinds) ==
    CHOOSE w \in OfferedPairs(stations, kinds) :
        \A o \in OfferedPairs(stations, kinds) :
            \/ PairPrice(stations, w) < PairPrice(stations, o)
            \/ PairPrice(stations, w) = PairPrice(stations, o) /\ Earlier(w, o)

KindIndex(ft) == CHOOSE k \in 1..3 : FuelKinds[k] = ft

\* the sensor reports the cheapest pair over the given kinds, or no station
\* when no pair is on offer
ReportsCheapest(kinds) ==
    LET stations == providers.stations
    IN  IF OfferedPairs(stations, kinds) = {}
        THEN sensor.station_id = ""
        ELSE LET w == CheapestPair(stations, kinds)
             IN  /\ sensor.station_id = stations[w[1]].id
                 /\ sensor.fuel_type = FuelKinds[w[2]]
                 /\ sensor.price = PNum(PairPrice(stations, w))

\* C11: for a requested fuel type other than all, the sensor recommends the
\* station with the least price of that kind among the stations offering it,
\* and of several stations at that price the earliest in the list.
C11_SelectorMinimum ==
    (subscribed /\ RequestedFuelType # "all") =>
        ReportsCheapest({KindIndex(RequestedFuelType)})

\* two stations tie on e5 and the earlier one is recommended
C11_Witness ==
    /\ subscribed
    /\ RequestedFuelType = "e5"
    /\ last_cycle.resp.stations = <<StationE10, StationA, StationB>>
    /\ sensor.station_id = "A"
    /\ sensor.price = PNum(180)

\* C12: for fuel type all, the sensor recommends the (station, kind, price) of
\* least price over the stations in list order crossed with the kinds in the
\* order e5, e10, diesel, the first pair met winning ties, and reports the kind
\* and the price of that pair; A: e5=180, B: diesel=160, C: e10=175 gives B,
\* diesel, 160.
C12_SelectorAll ==
    (subscribed /\ RequestedFuelType = "all") =>
        /\ ReportsCheapest(1..3)
        /\ last_cycle.resp.stations = <<StationA, StationDiesel, StationE10>> =>
              /\ sensor.station_id = StationDiesel.id
              /\ sensor.fuel_type = "diesel"
              /\ sensor.price = PNum(160)

C12_Witness ==
    /\ subscribed
    /\ RequestedFuelType = "all"
    /\ last_cycle.resp.stations = <<StationA, StationDiesel, StationE10>>
    /\ sensor.station_id = StationDiesel.id
    /\ sensor.fuel_type = "diesel"
    /\ sensor.price = PNum(160)

\* C13 as stated: over a list of stations accepted by the validator, the price
\* of a recommendation is always above zero.
C13_RecommendedPricePositive ==
    (subscribed /\ sensor.station_id # "") =>
        /\ sensor.price.t = "num"
        /\ sensor.price.v > 0

(***************************************************************************)
(* What the sensor shows, the validator and the provider's filter          *)
(***************************************************************************)
\* what a consumer of the sensor can tell situations apart by
Surface(sn) == <<sn.state, sn.error>>

\* what the sensor shows after a successful response with an empty station list
EmptyListSurface ==
    Surface(HandleUpdate(SensorUnset,
                         Result(fetch_stations(RespStations(<<>>)).stations),
                         AccessorView.config).sensor)

\* C14 as stated: after a provider call that failed the sensor shows something
\* else than after a response without stations, and stations none of which has
\* a usable price show something else again.
C14_ThreeSituationsDistinct ==
    (subscribed /\ last_cycle.end = "returned") =>
        /\ last_cycle.resp \in FailureResponses => Surface(sensor) # EmptyListSurface
        /\ (providers.stations # <<>> /\ sensor.station_id = "") =>
              Surface(sensor) # EmptyListSurface

\* the records of the response the last cycle received
Received == last_cycle.resp.stations

\* the record is among the stations the provider handed on
Retained(rec) ==
    \E j \in 1..Len(providers.stations) : Unmarked(providers.stations[j]) = rec

\* missing, null, or a number not above zero
Unusable(p) == p.t = "none" \/ (p.t = "num" /\ p.v <= 0)

\* C15: a record whose price mapping has, for each of e5, e10 and diesel, a
\* value that is missing, null or not above zero is rejected by
\* validate_station (and so is not among the stations handed on); 0 is invalid.
C15_NoUsablePriceRejected ==
    \A i \in 1..Len(Received) :
        LET rec == Received[i]
        IN  (/\ rec.kind = "dict"
             /\ rec.price.kind = "dict"
             /\ \A ft \in {"e5", "e10", "diesel"} : Unusable(PriceGet(rec.price, ft)))
            => /\ ~validate_station(rec)
               /\ ~Retained(rec)

\* a record whose only price is 0 is dropped next to one that is kept
C15_Witness ==
    /\ last_cycle.end = "returned"
    /\ Received = <<StationNoPrice, StationA>>
    /\ providers.count = 1
    /\ Retained(StationA)

\* a mapping with a price mapping, one kind numeric and above zero, and the
\* five identity fields
WellFormed(rec) ==
    /\ rec.kind = "dict"
    /\ rec.price.kind = "dict"
    /\ \E ft \in {"e5", "e10", "diesel"} :
          PriceGet(rec.price, ft).t = "num" /\ PriceGet(rec.price, ft).v > 0
    /\ {"id", "name", "brand", "lat", "lng"} \subseteq rec.fields

\* C16: validate_station accepts exactly the records that are mappings with a
\* price mapping holding at least one numeric price above zero and with all of
\* id, name, brand, lat, lng; a record lacking an identity field is never
\* handed on, whatever its prices.
C16_ValidatorExact ==
    \A i \in 1..Len(Received) :
        /\ validate_station(Received[i]) <=> WellFormed(Received[i])
        /\ ~({"id", "name", "brand", "lat", "lng"} \subseteq Received[i].fields)
              => ~Retained(Received[i])

\* a priced record without brand is dropped next to one that is kept
C16_Witness ==
    /\ last_cycle.end = "returned"
    /\ Received = <<StationNoBrand, StationB>>
    /\ providers.count = 1
    /\ Retained(StationB)

\* C17 as stated: after a successful response the stations handed on are the
\* received records the validator accepts, in the order received, and no
\* record turns the fetch into a failure.
C17_ReturnsAcceptedSubsequence ==
    (/\ last_cycle.end = "returned"
     /\ last_cycle.resp.kind = "http"
     /\ last_cycle.resp.status = 200
     /\ last_cycle.resp.body = "mapping"
     /\ last_cycle.resp.ok)
    => /\ last_cycle.fetch_exc = ""
       /\ [j \in 1..Len(providers.stations) |-> Unmarked(providers.stations[j])]
             = SelectSeq(Received, validate_station)

(***************************************************************************)
(* The radius of a request and the coordinates of the setup                *)
(***************************************************************************)
\* C18: the radius of a provider request is the lesser of the configured
\* radius and 25.
C18_RadiusIsMinOfRequestedAnd25 ==
    req.issued =>
        req.radius = (IF st_config.radius.v <= 25 THEN st_config.radius.v ELSE 25)

C18_Witness ==
    /\ req.issued
    /\ st_config.radius.v > 25
    /\ req.radius = 25

\* C19 as stated: the radius of every provider request lies between 1 and 25.
C19_RadiusWithinRange ==
    req.issued => (1 <= req.radius /\ req.radius <= 25)

\* C20 as stated: when the config entry lacks latitude or longitude, setup
\* fails, with no config stored, no coordinator cycle run, and no location
\* put in the place of the missing one.
C20_SetupRefusesMissingCoordinates ==
    (pc # "NotSetUp" /\ (entry.latitude = PNone \/ entry.longitude = PNone)) =>
        /\ pc = "SetupFailed"
        /\ hass_config = EmptyConfig
        /\ cycles = 0

\* C21 as stated: with a configured latitude outside -90..90 or longitude
\* outside -180..180 setup fails, and no provider request carries coordinates
\* outside these ranges.
C21_CoordinatesInRange ==
    /\ (/\ pc # "NotSetUp"
        /\ \/ entry.latitude.t = "num" /\ (entry.latitude.v < -90 \/ entry.latitude.v > 90)
           \/ entry.longitude.t = "num" /\ (entry.longitude.v < -180 \/ entry.longitude.v > 180))
       => pc = "SetupFailed"
    /\ req.issued => /\ -90 <= req.lat /\ req.lat <= 90
                     /\ -180 <= req.lng /\ req.lng <= 180

(***************************************************************************)
(* The provider's session, the timestamps and what a snapshot records      *)
(***************************************************************************)
\* C22 as stated: no session exists before the first request, at most one
\* session is open at any time, and none is open once the integration is
\* unloaded.
C22_SessionReleased ==
    /\ ~req.issued => (~session_open /\ sessions = 0)
    /\ sessions <= 1
    /\ pc = "Unloaded" => (~session_open /\ sessions = 0)

\* timestamps in order, None coming before every timestamp
NotEarlier(after, before) ==
    before.t = "none" \/ (after.t = "num" /\ before.v <= after.v)

\* C23 as stated: no step takes the timestamp of the current snapshot to an
\* earlier one.
C23_TimestampsMonotonic ==
    [][NotEarlier(AccessorView'.last_update, AccessorView.last_update)]_vars

\* the step in which a cycle completes and returns a snapshot
Publishes ==
    /\ cycles' # cycles \/ pc = "Fetching"
    /\ pc' = "Idle"
    /\ last_update_success'
    /\ last_cycle'.end \notin {"fault_entry", "cycle_timeout"}

\* C24: when a cycle has published a snapshot, the accessor returns the
\* timestamp, the config and the station data the cycle put into it.
C24_RoundTrip ==
    [][Publishes =>
          /\ snapshot'.obj = "data"
          /\ AccessorView'.last_update = PNum(now)
          /\ StripView(AccessorView') = StripView(last_published')]_vars

C24_Witness ==
    /\ pc = "Idle"
    /\ last_cycle.end = "returned"
    /\ Len(snaps) >= 2
    /\ data = Len(snaps)
    /\ AccessorView.providers.count > 0
    /\ AccessorView.last_update = last_published.last_update
    /\ StripView(AccessorView) = StripView(last_published)

\* C25 as stated: the config of the snapshot a cycle published has the
\* latitude, longitude, radius and fuel type of the cycle's provider request.
C25_ConfigIsTheQuery ==
    (data # 0 /\ last_cycle.end \in {"returned", "client_timeout"}) =>
        /\ AccessorView.config.latitude = PNum(req.lat)
        /\ AccessorView.config.longitude = PNum(req.lng)
        /\ AccessorView.config.radius = PNum(req.radius)
        /\ AccessorView.config.fuel_type = req.type

\* C26 as stated: the station records of the provider results are as the
\* provider returned them: the sensor has added or changed no field.
C26_SensorLeavesStations ==
    \A i \in 1..Len(providers.stations) :
        providers.stations[i] = Unmarked(providers.stations[i])

\* C27 as stated: a cycle of a coordinator with a provider, unless a fault
\* ends it, issues the provider request with the latitude and longitude that
\* setup validated, and never skips the fetch for missing coordinates.
C27_ValidatedCoordinatesAreUsed ==
    (/\ entry.api_key # ""
     /\ last_cycle.end \in {"running", "returned", "client_timeout", "cycle_timeout",
                            "no_coordinates"})
    => /\ last_cycle.end # "no_coordinates"
       /\ req.issued
       /\ PNum(req.lat) = st_config.latitude
       /\ PNum(req.lng) = st_config.longitude

\* C28: without an API key no request is issued and no session opened; a cycle
\* (one that no unexpected fault ends) completes successfully and publishes a
\* snapshot with empty provider results that differs from the snapshot before
\* it in the timestamp only.
C28_NoKeyNoRequest ==
    [][(entry.api_key = "" /\ cycles' = cycles + 1 /\ last_cycle'.end # "fault_entry") =>
          /\ pc' = "Idle"
          /\ last_update_success'
          /\ data' # data
          /\ ~req'.issued
          /\ ~session_open'
          /\ providers' = NoEntry
          /\ AccessorView'.providers = NoEntry
          /\ AccessorView'.last_update = PNum(now)
          /\ data # 0 => AccessorView' = [AccessorView EXCEPT !.last_update = PNum(now)]]_vars

C28_Witness ==
    /\ entry.api_key = ""
    /\ last_cycle.end = "no_provider"
    /\ data >= 2
    /\ last_update_success
    /\ AccessorView.providers = NoEntry
    /\ ~req.issued

====
